---- MODULE Spec2Model ----
(***************************************************************************)
(* Plant Sight (src/app.py).  One run of the Streamlit script: model file  *)
(* check, model load, image decode, MODEL.predict, top-k extraction, name  *)
(* and remedy lookup, result card, downloads.  Streamlit re-executes the   *)
(* whole script on every interaction; no state survives a run.             *)
(*                                                                         *)
(* Scores are Python floats.  The model keeps them as integers counting    *)
(* eighths (6 is 0.75, 760 is 95.0, -1 is -0.125): every value k/8 and     *)
(* every product (k/8)*100 is exact in binary floating point, so int(),    *)
(* the comparisons and the .2f format are computed here on exact values.   *)
(* NaN is a score too; every comparison with it is false.                  *)
(* Strings that are searched or built character by character (the class    *)
(* names) are sequences of one-character strings.                          *)
(***************************************************************************)
EXTENDS Integers, Sequences, FiniteSets, TLC

VARIABLES
  pc,             \* where the run is in the script
  env,            \* what the run finds: model file, ultralytics, upload, image
  MODEL,          \* TRUE once load_model_safe returned a model
  img,            \* TRUE once Image.open(uploaded).convert("RGB") returned
  r,              \* results[0] of MODEL.predict
  k,              \* the k handed to extract_topk_from_result
  preds,          \* list of <<class id, score>>
  display_preds,  \* list of <<name, score>>
  top_name, top_conf, remedy_text,
  page,           \* what has been rendered so far
  rep,            \* the text of the summary download
  predict_calls   \* number of MODEL.predict invocations in this run

vars == <<pc, env, MODEL, img, r, k, preds, display_preds, top_name, top_conf,
          remedy_text, page, rep, predict_calls>>

\* ---------------------------------------------------------------- bounds
\* A result carries at most MaxEntries scored entries in all: the length of
\* the probs array, of the probs.cpu() array and of the boxes, added up.
MaxEntries == 3
MaxK == 2

\* ---------------------------------------------------------------- config
TOP_K == 3

CLASS_MAPPING ==
     0 :> <<"A","m","e","r","i","c","a","n"," ","B","o","l","l","w","o","r","m"," ","o","n"," ","C","o","t","t","o","n">>
  @@ 1 :> <<"A","n","t","h","r","a","c","n","o","s","e"," ","o","n"," ","C","o","t","t","o","n">>
  @@ 2 :> <<"A","r","m","y"," ","w","o","r","m">>
  @@ 3 :> <<"B","a","c","t","e","r","i","a","l"," ","B","l","i","g","h","t"," ","i","n"," ","c","o","t","t","o","n">>
  @@ 4 :> <<"B","e","c","t","e","r","i","a","l"," ","B","l","i","g","h","t"," ","i","n"," ","R","i","c","e">>
  @@ 5 :> <<"B","r","o","w","n","s","p","o","t">>
  @@ 6 :> <<"C","o","m","m","o","n","_","R","u","s","t">>
  @@ 7 :> <<"C","o","t","t","o","n"," ","A","p","h","i","d">>
  @@ 8 :> <<"F","l","a","g"," ","S","m","u","t">>
  @@ 9 :> <<"G","r","a","y","_","L","e","a","f","_","S","p","o","t">>
  @@ 10 :> <<"H","e","a","l","t","h","y"," ","M","a","i","z","e">>
  @@ 11 :> <<"H","e","a","l","t","h","y"," ","W","h","e","a","t">>
  @@ 12 :> <<"H","e","a","l","t","h","y"," ","c","o","t","t","o","n">>
  @@ 13 :> <<"L","e","a","f"," ","C","u","r","l">>
  @@ 14 :> <<"L","e","a","f"," ","s","m","u","t">>
  @@ 15 :> <<"M","o","s","a","i","c"," ","s","u","g","a","r","c","a","n","e">>
  @@ 16 :> <<"R","e","d","R","o","t"," ","s","u","g","a","r","c","a","n","e">>
  @@ 17 :> <<"R","e","d","R","u","s","t"," ","s","u","g","a","r","c","a","n","e">>
  @@ 18 :> <<"R","i","c","e"," ","B","l","a","s","t">>
  @@ 19 :> <<"S","u","g","a","r","c","a","n","e"," ","H","e","a","l","t","h","y">>
  @@ 20 :> <<"T","u","n","g","r","o">>
  @@ 21 :> <<"W","h","e","a","t"," ","B","r","o","w","n"," ","l","e","a","f"," ","R","u","s","t">>
  @@ 22 :> <<"W","h","e","a","t"," ","B","r","o","w","n"," ","l","e","a","f"," ","r","u","s","t">>
  @@ 23 :> <<"W","h","e","a","t"," ","S","t","e","m"," ","f","l","y">>
  @@ 24 :> <<"W","h","e","a","t"," ","a","p","h","i","d">>
  @@ 25 :> <<"W","h","e","a","t"," ","b","l","a","c","k"," ","r","u","s","t">>
  @@ 26 :> <<"W","h","e","a","t"," ","l","e","a","f"," ","b","l","i","g","h","t">>
  @@ 27 :> <<"W","h","e","a","t"," ","m","i","t","e">>
  @@ 28 :> <<"W","h","e","a","t"," ","p","o","w","d","e","r","y"," ","m","i","l","d","e","w">>
  @@ 29 :> <<"W","h","e","a","t"," ","s","c","a","b">>
  @@ 30 :> <<"W","h","e","a","t","_","_","_","Y","e","l","l","o","w","_","R","u","s","t">>
  @@ 31 :> <<"W","i","l","t">>
  @@ 32 :> <<"Y","e","l","l","o","w"," ","R","u","s","t"," ","S","u","g","a","r","c","a","n","e">>
  @@ 33 :> <<"b","a","c","t","e","r","i","a","l","_","b","l","i","g","h","t"," ","i","n"," ","C","o","t","t","o","n">>
  @@ 34 :> <<"b","o","l","l","r","o","t"," ","o","n"," ","C","o","t","t","o","n">>
  @@ 35 :> <<"b","o","l","l","w","o","r","m"," ","o","n"," ","C","o","t","t","o","n">>
  @@ 36 :> <<"c","o","t","t","o","n"," ","m","e","a","l","y"," ","b","u","g">>
  @@ 37 :> <<"c","o","t","t","o","n"," ","w","h","i","t","e","f","l","y">>
  @@ 38 :> <<"m","a","i","z","e"," ","e","a","r"," ","r","o","t">>
  @@ 39 :> <<"m","a","i","z","e"," ","f","a","l","l"," ","a","r","m","y","w","o","r","m">>
  @@ 40 :> <<"m","a","i","z","e"," ","s","t","e","m"," ","b","o","r","e","r">>
  @@ 41 :> <<"p","i","n","k"," ","b","o","l","l","w","o","r","m"," ","i","n"," ","c","o","t","t","o","n">>
  @@ 42 :> <<"r","e","d"," ","c","o","t","t","o","n"," ","b","u","g">>
  @@ 43 :> <<"t","h","i","r","p","s"," ","o","n"," "," ","c","o","t","t","o","n">>

REMEDIES ==
     0 :> "Monitor bolls, remove damaged bolls, use pheromone traps/targeted insecticide and Bt varieties; rotate crops."
  @@ 1 :> "Remove infected debris, increase air circulation, apply appropriate fungicide and use resistant varieties."
  @@ 2 :> "Handpick or use biocontrols/targeted insecticides; maintain healthy crop borders and timely scouting."
  @@ 3 :> "Remove infected plant parts, avoid overhead irrigation, improve drainage; use approved bactericides."
  @@ 4 :> "Use clean seed, balanced fertilizer, flood/dry management and registered bactericides; follow local extension advice."
  @@ 5 :> "Use resistant varieties, balanced nutrients and foliar fungicides if needed; avoid prolonged leaf wetness."
  @@ 6 :> "Remove alternate hosts, use rust-resistant varieties and fungicide sprays timed to infection risk."
  @@ 7 :> "Use neem/soap sprays or biological controls; conserve predators (ladybugs); avoid excess nitrogen."
  @@ 8 :> "Use certified seed, seed treatment and crop rotation; follow local fungicide recommendations."
  @@ 9 :> "Remove infected leaves, improve airflow, apply fungicide when needed and avoid overhead watering."
  @@ 10 :> "No disease detected - maintain good agronomic practices and regular scouting."
  @@ 11 :> "Healthy - keep crop rotation, timely fungicide if risk appears, and good nutrition."
  @@ 12 :> "Healthy - continue best-practices: balanced irrigation, nutrition and monitoring."
  @@ 13 :> "Prune affected parts, use resistant varieties, remove heavily infested plants and use vector control."
  @@ 14 :> "Use resistant varieties, seed treatment and fungicide where recommended; improve field hygiene."
  @@ 15 :> "Remove infected stools, use resistant varieties, maintain balanced nutrition and follow extension guidance."
  @@ 16 :> "Sanitation, remove infected canes, use resistant varieties and follow recommended fungicide schedule."
  @@ 17 :> "Use resistant varieties, cultural sanitation, and fungicides as per local advice."
  @@ 18 :> "Use resistant varieties, proper spacing, timely fungicide and water management; remove infected plants."
  @@ 19 :> "Healthy - maintain good field hygiene, nutrition and pest monitoring."
  @@ 20 :> "Viral disease - remove infected plants, control vectors (insects), use resistant varieties and healthy seed."
  @@ 21 :> "Remove infected debris, apply rust control measures and use resistant varieties."
  @@ 22 :> "See entry 21 - sanitation, resistant varieties and fungicide where applicable."
  @@ 23 :> "Stem fly - early sowing, remove residues, use tolerant varieties and insecticide seed treatment if recommended."
  @@ 24 :> "Wheat aphid - monitor, release/encourage natural enemies, use targeted insecticides only if threshold exceeded."
  @@ 25 :> "Black rust - plant resistant varieties, monitor and apply fungicide at key growth stages."
  @@ 26 :> "Leaf blight - crop rotation, avoid dense stands, treat with fungicide when needed."
  @@ 27 :> "Mites - use miticides or oils, conserve predators and avoid excessive use of broad-spectrum insecticides."
  @@ 28 :> "Powdery mildew - improve airflow, timely fungicides and grow resistant varieties."
  @@ 29 :> "Scab (Fusarium) - crop rotation, resistant varieties, and fungicide seed treatment where advised."
  @@ 30 :> "Yellow rust - plant resistant varieties, monitor and apply fungicide at early signs."
  @@ 31 :> "Wilt - diagnose (fungal/bacterial/physiological), use resistant varieties and improve drainage; remove infected plants."
  @@ 32 :> "Yellow Rust Sugarcane - use resistant varieties, fungicide sprays and sanitation."
  @@ 33 :> "Bacterial blight (cotton) - remove infected material, control vectors, and use clean seed/approved treatments."
  @@ 34 :> "Boll rot - improve air flow, avoid late-season wetness, timely insect control to prevent fruit damage."
  @@ 35 :> "Bollworm - monitor, use pheromone traps/Bt or targeted insecticides and timely scouting."
  @@ 36 :> "Mealy bug - release natural enemies, use insecticidal soaps/oils and remove heavily infested plants."
  @@ 37 :> "Whitefly - use yellow sticky traps, natural enemies, and insecticidal soaps or targeted sprays if needed."
  @@ 38 :> "Maize ear rot - manage moisture at harvest, use resistant hybrids and proper storage."
  @@ 39 :> "Fall armyworm - early detection, biopesticides (Bt), targeted insecticides and field sanitation."
  @@ 40 :> "Stem borer - use pheromone traps, resistant varieties and stem borer management practices."
  @@ 41 :> "Pink bollworm - pheromone traps, cultural controls and timely insecticide targeting larvae."
  @@ 42 :> "Red cotton bug - hand-pick high populations, use insecticide when threshold crossed and field sanitation."
  @@ 43 :> "Thrips - monitor, use reflective mulch, conserve predators and apply insecticidal soap/targeted insecticide if needed."

\* ------------------------------------------------------- Python values
Min(a, b) == IF a < b THEN a ELSE b

\* float("nan"): a score that is no number.  It is told apart by IsNaN and
\* never compared as a number.
NaN == -100000

IsNaN(x) == x = NaN

\* x < y on floats: false as soon as one side is NaN.
FLt(x, y) == ~IsNaN(x) /\ ~IsNaN(y) /\ x < y

\* -x
FNeg(x) == IF IsNaN(x) THEN NaN ELSE -x

\* A str value or None.
PyNone == [none |-> TRUE, text |-> ""]

PyStr(s) == [none |-> FALSE, text |-> s]

\* dict.get(key, default)
DictGet(d, key, default) == IF key \in DOMAIN d THEN d[key] ELSE default

\* An attribute of an object: missing (hasattr is False, reading it raises
\* AttributeError), present with a value int()/float() rejects, or present
\* with a number.
Absent == [st |-> "absent", v |-> 0]

Bad == [st |-> "bad", v |-> 0]

Ok(x) == [st |-> "ok", v |-> x]

hasattr(a) == a.st # "absent"

Converts(a) == a.st = "ok"

SeqsUpTo(S, n) == UNION {[1..m -> S] : m \in 0..n}

\* str(n) for an int, as characters.
Digit(d) == <<"0","1","2","3","4","5","6","7","8","9">>[d + 1]

RECURSIVE Decimal(_)
Decimal(n) ==
  IF n < 0 THEN <<"-">> \o Decimal(-n)
  ELSE IF n < 10 THEN <<Digit(n)>>
  ELSE Decimal(n \div 10) \o <<Digit(n % 10)>>

\* f"Class {idx}"
ClassLabel(idx) == <<"C","l","a","s","s"," ">> \o Decimal(idx)

Unknown == <<"U","n","k","n","o","w","n">>

NoRemedyAvailable == PyStr("No remedy available.")

\* int(x*100) for a score x: truncation toward zero of x*100 = q*100/8.
IntTimes100(q) ==
  IF q >= 0 THEN (q * 100) \div 8 ELSE -(((-q) * 100) \div 8)

\* f"{x:.2f}" for a score x, as a count of hundredths: the exact value
\* q*100/8 rounded to the nearest integer, a tie going to the even one.
Format2f(q) ==
  LET n == IF q >= 0 THEN q * 100 ELSE (-q) * 100
      lo == n \div 8
      rem == n % 8
      m == IF rem > 4 \/ (rem = 4 /\ lo % 2 = 1) THEN lo + 1 ELSE lo
  IN  IF q >= 0 THEN m ELSE -m

\* ------------------------------------------------- the classifier result
ArrScores == {3, 6, NaN}
CpuScores == {3, 6, NaN}
TopIds == {2, 44}
TopConfs == {-1, 760, NaN}

\* np.array(x).flatten(): raises, or a float array (possibly of size 0).
ArrRaise == [st |-> "raise", a |-> <<>>]

ArrOk(s) == [st |-> "ok", a |-> s]

ArrOutcomes(n) == {ArrRaise} \cup {ArrOk(s) : s \in SeqsUpTo(ArrScores, n)}

\* probs.cpu: no such method, a call that raises or whose result np.array
\* rejects, or an array.
CpuAbsent == [st |-> "absent", a |-> <<>>]

CpuOutcomes(n) ==
  {CpuAbsent, ArrRaise} \cup {ArrOk(s) : s \in SeqsUpTo(CpuScores, n)}

NoProbs ==
  [st |-> "None", arr |-> ArrRaise, top1 |-> Absent, top1conf |-> Absent,
   cpu |-> CpuAbsent]

\* The probs objects that carry at most n entries in their two arrays.
ProbsObjs(n) ==
  UNION {[st : {"obj"}, arr : {a}, top1 : {Absent, Bad} \cup {Ok(c) : c \in TopIds},
          top1conf : {Absent} \cup {Ok(s) : s \in TopConfs},
          cpu : CpuOutcomes(n - Len(a.a))] : a \in ArrOutcomes(n)}

\* Boxes whose cls and conf both read (one of them with a NaN conf), one
\* whose conf cannot be read, one whose cls cannot be read.
Box ==
  {[cls |-> Ok(2), conf |-> Ok(3)], [cls |-> Ok(11), conf |-> Ok(6)],
   [cls |-> Ok(2), conf |-> Ok(NaN)],
   [cls |-> Ok(11), conf |-> Bad], [cls |-> Bad, conf |-> Ok(6)]}

NoBoxes == [st |-> "None", bs |-> <<>>]

BoxesObjs(n) == {[st |-> "ok", bs |-> s] : s \in SeqsUpTo(Box, n)}

\* r.names of the loaded model: its own labels, not the catalog's.
ModelNames ==
  2 :> <<"a","r","m","y","w","o","r","m">> @@ 44 :> <<"e","x","t","r","a">>

NoNames == [st |-> "absent", d |-> <<>>]

NamesObjs == {NoNames, [st |-> "dict", d |-> ModelNames]}

Results ==
  UNION {[probs : {NoProbs} \cup ProbsObjs(MaxEntries - Len(b.bs)), boxes : {b},
          names : NamesObjs] : b \in {NoBoxes} \cup BoxesObjs(MaxEntries)}

NoResult == [probs |-> NoProbs, boxes |-> NoBoxes, names |-> NoNames]

\* ------------------------------------------ extract_topk_from_result
Perms(n) == {p \in [1..n -> 1..n] : \A i, j \in 1..n : p[i] = p[j] => i = j}

\* The order numpy sorts floats in: NaN after every number.
NpLe(x, y) == IsNaN(y) \/ (~IsNaN(x) /\ x <= y)

\* np.argsort(-arr): the indices in an order that sorts -arr, so the scores
\* come out non-increasing with the NaN ones last.  The default sort is not
\* stable, so equal scores may come out in any order.
ArgsortDesc(a) ==
  {p \in Perms(Len(a)) :
     \A i, j \in 1..Len(a) : i < j => NpLe(FNeg(a[p[i]]), FNeg(a[p[j]]))}

\* s[:n] for n >= 0
Take(s, n) == SubSeq(s, 1, Min(n, Len(s)))

\* [(int(i), float(arr[i])) for i in np.argsort(-arr)[:k]]; array indices
\* start at 0.
TopKOfArray(a, kk) ==
  {[i \in 1..Min(kk, Len(a)) |-> <<p[i] - 1, a[p[i]]>>] : p \in ArgsortDesc(a)}

NoReturn == [ret |-> FALSE, outs |-> {}]

Return(S) == [ret |-> TRUE, outs |-> S]

ProbsArrayPath(probs_obj, kk) ==
  IF probs_obj.arr.st = "ok" /\ Len(probs_obj.arr.a) > 0
  THEN Return(TopKOfArray(probs_obj.arr.a, kk))
  ELSE NoReturn

\* Fault variant of Top1Path: the hasattr test names an attribute the probs
\* object never has, so the branch is never taken.
Top1PathNeverTaken(probs_obj) == NoReturn

Top1Path(probs_obj) ==
  IF /\ hasattr(probs_obj.top1) /\ hasattr(probs_obj.top1conf)
     /\ Converts(probs_obj.top1) /\ Converts(probs_obj.top1conf)
  THEN Return({<< <<probs_obj.top1.v, probs_obj.top1conf.v>> >>})
  ELSE NoReturn

CpuPath(probs_obj, kk) ==
  IF probs_obj.cpu.st = "ok"
  THEN Return(TopKOfArray(probs_obj.cpu.a, kk))
  ELSE NoReturn

\* The loop over the boxes: int(b.cls) is appended before float(b.conf) is
\* read, so a box whose conf cannot be read leaves its cls in cls_list.
RECURSIVE BoxLists(_)
BoxLists(bs) ==
  IF bs = <<>> THEN [cls_list |-> <<>>, conf_list |-> <<>>]
  ELSE LET rest == BoxLists(SubSeq(bs, 1, Len(bs) - 1))
           b == bs[Len(bs)]
       IN  IF ~Converts(b.cls) THEN rest
           ELSE IF ~Converts(b.conf)
                THEN [rest EXCEPT !.cls_list = Append(@, b.cls.v)]
                ELSE [cls_list |-> Append(rest.cls_list, b.cls.v),
                      conf_list |-> Append(rest.conf_list, b.conf.v)]

Zip(a, b) == [i \in 1..Min(Len(a), Len(b)) |-> <<a[i], b[i]>>]

\* sorted(pairs, key=lambda x: -x[1]).  The keys are compared with < only:
\* list.sort on a short list takes the longest run at the front (reversing it
\* when it strictly descends) and then places each later element by binary
\* insertion.  With NaN keys the comparisons are all false and the result
\* need not be ordered.
KeyLt(x, y) == FLt(FNeg(x[2]), FNeg(y[2]))

RECURSIVE RunEnd(_, _, _)
RunEnd(s, i, descending) ==
  IF i < Len(s) /\ (KeyLt(s[i + 1], s[i]) <=> descending)
  THEN RunEnd(s, i + 1, descending)
  ELSE i

Reverse(s) == [i \in 1..Len(s) |-> s[Len(s) + 1 - i]]

\* The number of elements of sorted that stay before x; lo and hi are the
\* l and r of binarysort, counted from 0.
RECURSIVE BinaryPos(_, _, _, _)
BinaryPos(sorted, x, lo, hi) ==
  IF lo < hi
  THEN LET p == lo + ((hi - lo) \div 2)
       IN  IF KeyLt(x, sorted[p + 1])
           THEN BinaryPos(sorted, x, lo, p)
           ELSE BinaryPos(sorted, x, p + 1, hi)
  ELSE lo

RECURSIVE BinarySort(_, _)
BinarySort(sorted, rest) ==
  IF rest = <<>> THEN sorted
  ELSE LET n == BinaryPos(sorted, Head(rest), 0, Len(sorted))
       IN  BinarySort(SubSeq(sorted, 1, n) \o <<Head(rest)>>
                        \o SubSeq(sorted, n + 1, Len(sorted)),
                      Tail(rest))

SortedByNegScore(pairs) ==
  IF Len(pairs) < 2 THEN pairs
  ELSE LET descending == KeyLt(pairs[2], pairs[1])
           n == RunEnd(pairs, 2, descending)
           run == SubSeq(pairs, 1, n)
       IN  BinarySort(IF descending THEN Reverse(run) ELSE run,
                      SubSeq(pairs, n + 1, Len(pairs)))

BoxesPath(boxes, kk) ==
  IF boxes.st = "ok" /\ Len(boxes.bs) > 0
  THEN LET l == BoxLists(boxes.bs)
       IN  IF l.cls_list # <<>>
           THEN Return({Take(SortedByNegScore(Zip(l.cls_list, l.conf_list)), kk)})
           ELSE NoReturn
  ELSE NoReturn

\* The set of lists the call may return (more than one only when equal
\* scores leave the order of np.argsort open).
extract_topk_from_result(result, kk) ==
  LET probs_obj == result.probs
      viaProbs ==
        IF probs_obj.st = "None" THEN NoReturn
        ELSE IF ProbsArrayPath(probs_obj, kk).ret THEN ProbsArrayPath(probs_obj, kk)
        ELSE IF Top1Path(probs_obj).ret THEN Top1Path(probs_obj)
        ELSE CpuPath(probs_obj, kk)
  IN  IF viaProbs.ret THEN viaProbs.outs
      ELSE IF BoxesPath(result.boxes, kk).ret THEN BoxesPath(result.boxes, kk).outs
      ELSE {<<>>}

\* ------------------------------------------------------ load_model_safe
\* YOLO is None when ultralytics could be neither imported nor installed.
\* Otherwise YOLO(path) is tried, and YOLO(path, device="cpu") once if that
\* raised; the second failure is re-raised.
\* Fault variant of load_model_safe: the failure of the CPU fallback is
\* swallowed instead of re-raised.
load_model_safe_swallowing(yolo, load1, load2) ==
  IF ~yolo THEN [raised |-> TRUE, how |-> "no_yolo"]
  ELSE IF load1 THEN [raised |-> FALSE, how |-> "normal"]
  ELSE IF load2 THEN [raised |-> FALSE, how |-> "cpu_fallback"]
  ELSE [raised |-> FALSE, how |-> "both_failed"]

load_model_safe(yolo, load1, load2) ==
  IF ~yolo THEN [raised |-> TRUE, how |-> "no_yolo"]
  ELSE IF load1 THEN [raised |-> FALSE, how |-> "normal"]
  ELSE IF load2 THEN [raised |-> FALSE, how |-> "cpu_fallback"]
  ELSE [raised |-> TRUE, how |-> "both_failed"]

\* ---------------------------------------------------------- the script
\* What the run has found so far: os.path.exists(MODEL_PATH) and the way
\* load_model_safe(MODEL_PATH) ended; "?" before the script got there.
NothingSeen == [model_exists |-> "?", load |-> "?"]

YesNo(b) == IF b THEN "yes" ELSE "no"

BlankPage ==
  [error |-> "", card |-> "none", name |-> <<>>, pct_shown |-> FALSE,
   pct |-> 0, remedy_shown |-> FALSE, remedy |-> PyNone,
   exception |-> FALSE, downloads |-> FALSE]

NoReport == [written |-> FALSE, name |-> <<>>, conf |-> 0, remedy |-> PyNone]

Init ==
  /\ pc = "model_check"
  /\ env = NothingSeen
  /\ MODEL = FALSE
  /\ img = FALSE
  /\ r = NoResult
  /\ k = TOP_K
  /\ preds = <<>>
  /\ display_preds = <<>>
  /\ top_name = <<>>
  /\ top_conf = 0
  /\ remedy_text = PyNone
  /\ page = BlankPage
  /\ rep = NoReport
  /\ predict_calls = 0

\* st.error(...); st.stop()
ErrorStop(msg) ==
  /\ page' = [page EXCEPT !.error = msg]
  /\ pc' = "stopped"

CheckModelFile ==
  /\ pc = "model_check"
  /\ \E exists \in BOOLEAN :
       /\ env' = [env EXCEPT !.model_exists = YesNo(exists)]
       /\ IF exists
          THEN pc' = "load" /\ page' = page
          ELSE ErrorStop("Model file not found")
  /\ UNCHANGED <<MODEL, img, r, k, preds, display_preds, top_name,
                 top_conf, remedy_text, rep, predict_calls>>

LoadModel ==
  /\ pc = "load"
  /\ \E yolo, load1, load2 \in BOOLEAN :
       /\ env' = [env EXCEPT !.load = load_model_safe(yolo, load1, load2).how]
       /\ IF ~load_model_safe(yolo, load1, load2).raised
          THEN MODEL' = TRUE /\ pc' = "uploaded" /\ page' = page
          ELSE MODEL' = MODEL /\ ErrorStop("Failed to load model")
  /\ UNCHANGED <<img, r, k, preds, display_preds, top_name, top_conf,
                 remedy_text, rep, predict_calls>>

\* if uploaded: is false; the script goes on to the footer.
NoUpload ==
  /\ pc = "uploaded"
  /\ pc' = "done"
  /\ UNCHANGED <<env, MODEL, img, r, k, preds, display_preds, top_name,
                 top_conf, remedy_text, page, rep, predict_calls>>

\* A file was uploaded: Image.open(uploaded).convert("RGB") returns or raises.
OpenImage ==
  /\ pc = "uploaded"
  /\ \E image_ok \in BOOLEAN :
       IF image_ok
       THEN img' = TRUE /\ pc' = "predict" /\ page' = page
       ELSE img' = img /\ ErrorStop("Unable to read image")
  /\ UNCHANGED <<env, MODEL, r, k, preds, display_preds, top_name, top_conf,
                 remedy_text, rep, predict_calls>>

\* MODEL.predict returns a list whose first element is r, and the top-k is
\* extracted from r.
Predict ==
  /\ pc = "predict"
  /\ predict_calls' = predict_calls + 1
  /\ \E res \in Results :
       \E out \in extract_topk_from_result(res, TOP_K) :
         /\ r' = res
         /\ preds' = out
  /\ pc' = "prepare"
  /\ UNCHANGED <<env, MODEL, img, k, display_preds, top_name, top_conf,
                 remedy_text, page, rep>>

\* MODEL.predict raises, or returns an empty list so that results[0] raises.
PredictRaises ==
  /\ pc = "predict"
  /\ predict_calls' = predict_calls + 1
  /\ ErrorStop("Prediction error")
  /\ UNCHANGED <<env, MODEL, img, r, k, preds, display_preds, top_name,
                 top_conf, remedy_text, rep>>

\* Fault variant of MappedPreds: CLASS_MAPPING.get(idx, "Unknown").
MappedPredsFixedDefault(ps) ==
  [i \in 1..Len(ps) |-> <<DictGet(CLASS_MAPPING, ps[i][1], Unknown), ps[i][2]>>]

\* [(CLASS_MAPPING.get(idx, f"Class {idx}"), conf) for idx, conf in preds]
MappedPreds(ps) ==
  [i \in 1..Len(ps) |-> <<DictGet(CLASS_MAPPING, ps[i][1], ClassLabel(ps[i][1])), ps[i][2]>>]

\* The body of "if not display_preds and hasattr(r, 'names')": any exception
\* in it is swallowed and leaves the list empty.
NamesFallback(res) ==
  IF /\ res.names.st # "absent"
     /\ res.probs.st # "None"
     /\ hasattr(res.probs.top1) /\ Converts(res.probs.top1)
     /\ res.names.st = "dict"
     /\ hasattr(res.probs.top1conf) /\ Converts(res.probs.top1conf)
  THEN << <<DictGet(res.names.d, res.probs.top1.v, ClassLabel(res.probs.top1.v)),
            res.probs.top1conf.v>> >>
  ELSE <<>>

DisplayPreds(res, ps) ==
  IF MappedPreds(ps) # <<>> THEN MappedPreds(ps) ELSE NamesFallback(res)

PrepareDisplay ==
  /\ pc = "prepare"
  /\ display_preds' = DisplayPreds(r, preds)
  /\ pc' = "render"
  /\ UNCHANGED <<env, MODEL, img, r, k, preds, top_name, top_conf,
                 remedy_text, page, rep, predict_calls>>

\* Fault variant of RemedyText: the remedy of the last entry, preds[-1][0].
RemedyTextOfLast(ps) ==
  IF ps # <<>>
  THEN IF ps[Len(ps)][1] \in DOMAIN REMEDIES
       THEN PyStr(REMEDIES[ps[Len(ps)][1]]) ELSE PyNone
  ELSE NoRemedyAvailable

\* REMEDIES.get(preds[0][0]) if preds else "No remedy available."
RemedyText(ps) ==
  IF ps # <<>>
  THEN IF ps[1][1] \in DOMAIN REMEDIES THEN PyStr(REMEDIES[ps[1][1]]) ELSE PyNone
  ELSE NoRemedyAvailable

\* The result card: prediction line, confidence line and bar, then the
\* recommended action.
RenderResult ==
  /\ pc = "render"
  /\ IF display_preds # <<>>
     THEN /\ ~IsNaN(display_preds[1][2])
          /\ top_name' = display_preds[1][1]
          /\ top_conf' = display_preds[1][2]
          /\ remedy_text' = RemedyText(preds)
          /\ page' = [page EXCEPT !.card = "prediction",
                                  !.name = display_preds[1][1],
                                  !.pct_shown = TRUE,
                                  !.pct = IntTimes100(display_preds[1][2]),
                                  !.remedy_shown = TRUE,
                                  !.remedy = RemedyText(preds)]
     ELSE /\ top_name' = Unknown
          /\ top_conf' = 0
          /\ remedy_text' = RemedyText(preds)
          /\ page' = [page EXCEPT !.card = "unknown",
                                  !.name = Unknown,
                                  !.remedy_shown = TRUE,
                                  !.remedy = RemedyText(preds)]
  /\ pc' = "downloads"
  /\ UNCHANGED <<env, MODEL, img, r, k, preds, display_preds, rep,
                 predict_calls>>

\* int(top_conf*100) raises ValueError on a NaN score, after the prediction
\* line was written; nothing catches it and the run ends there.
RenderRaises ==
  /\ pc = "render"
  /\ display_preds # <<>>
  /\ IsNaN(display_preds[1][2])
  /\ top_name' = display_preds[1][1]
  /\ top_conf' = display_preds[1][2]
  /\ page' = [page EXCEPT !.card = "prediction",
                          !.name = display_preds[1][1],
                          !.exception = TRUE]
  /\ pc' = "crashed"
  /\ UNCHANGED <<env, MODEL, img, r, k, preds, display_preds, remedy_text,
                 rep, predict_calls>>

\* rep = f"...Top prediction: {top_name} ({top_conf:.2f})\nRemedy: {remedy_text}\n"
Report(name, conf, remedy) ==
  [written |-> TRUE, name |-> name, conf |-> Format2f(conf), remedy |-> remedy]

Downloads ==
  /\ pc = "downloads"
  /\ rep' = Report(top_name, top_conf, remedy_text)
  /\ page' = [page EXCEPT !.downloads = TRUE]
  /\ pc' = "done"
  /\ UNCHANGED <<env, MODEL, img, r, k, preds, display_preds, top_name,
                 top_conf, remedy_text, predict_calls>>

\* Any interaction re-executes the script from the top.
Rerun ==
  /\ pc \in {"done", "stopped", "crashed"}
  /\ pc' = "model_check"
  /\ env' = NothingSeen
  /\ MODEL' = FALSE
  /\ img' = FALSE
  /\ r' = NoResult
  /\ preds' = <<>>
  /\ display_preds' = <<>>
  /\ top_name' = <<>>
  /\ top_conf' = 0
  /\ remedy_text' = PyNone
  /\ page' = BlankPage
  /\ rep' = NoReport
  /\ predict_calls' = 0
  /\ UNCHANGED k

Next ==
  \/ CheckModelFile
  \/ LoadModel
  \/ NoUpload
  \/ OpenImage
  \/ Predict
  \/ PredictRaises
  \/ PrepareDisplay
  \/ RenderResult
  \/ RenderRaises
  \/ Downloads
  \/ Rerun

Spec == Init /\ [][Next]_vars

\* ----------------------- extract_topk_from_result as a function of (r, k)
InitExtract ==
  /\ pc = "extract_call"
  /\ r \in Results
  /\ k \in 1..MaxK
  /\ env = [model_exists |-> "yes", load |-> "normal"]
  /\ MODEL = TRUE
  /\ img = TRUE
  /\ preds = <<>>
  /\ display_preds = <<>>
  /\ top_name = <<>>
  /\ top_conf = 0
  /\ remedy_text = PyNone
  /\ page = BlankPage
  /\ rep = NoReport
  /\ predict_calls = 1

ApplyExtract ==
  /\ pc = "extract_call"
  /\ preds' \in extract_topk_from_result(r, k)
  /\ pc' = "extract_returned"
  /\ UNCHANGED <<env, MODEL, img, r, k, display_preds, top_name, top_conf,
                 remedy_text, page, rep, predict_calls>>

NextExtract == ApplyExtract

SpecExtract == InitExtract /\ [][NextExtract]_vars

\* --------------------------------------------- the acceptance gate (spec)
\* The gate of spec sections 4.1 to 4.4.  src/app.py has no such code; these
\* definitions state what the claims about the gate require of a run.

\* 0.70, counted in 1/800 (the unit of normalize).
Threshold == 560

CropKeywords ==
  {<<"c","o","t","t","o","n">>, <<"m","a","i","z","e">>, <<"w","h","e","a","t">>,
   <<"r","i","c","e">>, <<"s","u","g","a","r","c","a","n","e">>}

UpperCase == <<"A","B","C","D","E","F","G","H","I","J","K","L","M","N","O","P","Q","R","S","T","U","V","W","X","Y","Z">>

LowerCase == <<"a","b","c","d","e","f","g","h","i","j","k","l","m","n","o","p","q","r","s","t","u","v","w","x","y","z">>

LowerChar(c) ==
  IF \E i \in 1..26 : UpperCase[i] = c
  THEN LowerCase[CHOOSE i \in 1..26 : UpperCase[i] = c]
  ELSE c

Lower(s) == [i \in 1..Len(s) |-> LowerChar(s[i])]

Contains(s, t) ==
  \E i \in 1..(Len(s) - Len(t) + 1) : SubSeq(s, i, i + Len(t) - 1) = t

\* 4.3: case-insensitive substring match against the keyword set.
looks_like_crop(name) == \E kw \in CropKeywords : Contains(Lower(name), kw)

\* 4.1: a raw score above 1.0 is divided by 100, the result clamped to
\* [0, 1].  The value is counted in 1/800: a score of q eighths is q*100,
\* and q itself once divided by 100.
normalize(q) ==
  LET v == IF q > 8 THEN q ELSE q * 100
  IN  IF IsNaN(q) \/ v < 0 THEN 0 ELSE IF v > 800 THEN 800 ELSE v

\* 4.2
resolve(class_id) == DictGet(CLASS_MAPPING, class_id, ClassLabel(class_id))

valid_class(class_id) == class_id \in DOMAIN CLASS_MAPPING

confident(q) == normalize(q) >= Threshold

\* 4.4 steps 3 to 6, for the top entry <<class id, raw score>>.
decide(top) ==
  [accepted |-> /\ valid_class(top[1]) /\ confident(top[2])
                /\ looks_like_crop(resolve(top[1])),
   reason |-> IF ~confident(top[2]) THEN "LOW_CONFIDENCE"
              ELSE IF ~looks_like_crop(resolve(top[1])) THEN "NOT_CROP_LIKE"
              ELSE IF ~valid_class(top[1]) THEN "NO_VALID_PREDICTION"
              ELSE "NONE"]

\* ------------------------------------------------------------- claims
\* The run has drawn the result card (lines 420-436).
Rendered == pc \in {"downloads", "done"} /\ page.card # "none"

\* What the page tells the user about the top prediction: it is shown as the
\* result, or nothing was predicted.  The script renders no other outcome.
ShownAsResult == page.card = "prediction"

ReportedReason ==
  IF page.card = "prediction" THEN "NONE" ELSE "NO_PREDICTION"

\* C1: for a non-empty ranked list the top prediction is shown as the result
\* if and only if its class id is in the catalog, its normalized confidence
\* is at least the threshold and its name contains a crop keyword.
C1_ShownIffAccepted ==
  (preds # <<>> /\ (Rendered \/ pc = "crashed"))
    => (ShownAsResult <=> decide(preds[1]).accepted)

\* C2: a rejected top prediction is reported with the first failing check in
\* the order LOW_CONFIDENCE, NOT_CROP_LIKE, no valid prediction.
C2_RejectionReason ==
  (preds # <<>> /\ Rendered /\ ~decide(preds[1]).accepted)
    => ReportedReason = decide(preds[1]).reason

\* C4: the confidence shown and exported is the normalized one, so the
\* percentage and the bar width lie in 0..100 and so does the exported value.
C4_ConfidenceNormalized ==
  /\ (Rendered /\ page.pct_shown) =>
       /\ page.pct \in 0..100
       /\ top_conf * 100 = normalize(preds[1][2])
  /\ (rep.written /\ preds # <<>>) => rep.conf \in 0..100

\* C7: the recommended action shown and exported with a prediction is a
\* non-empty string, never a missing value.
C7_RemedyNeverMissing ==
  /\ (Rendered /\ ShownAsResult) =>
       /\ page.remedy_shown
       /\ ~page.remedy.none
       /\ page.remedy.text # ""
  /\ rep.written => (~rep.remedy.none /\ rep.remedy.text # "")

\* The run has the list returned by extract_topk_from_result.
Extracted ==
  /\ predict_calls > 0
  /\ pc \in {"prepare", "render", "downloads", "done", "crashed"}

\* C3: when the extracted list is empty the run shows no prediction and no
\* catalog remedy, raises nothing, and still offers the downloads.
C3_EmptyListIsRejection ==
  (Extracted /\ preds = <<>>) =>
    /\ pc # "crashed"
    /\ ~page.exception
    /\ page.card # "prediction"
    /\ (pc # "prepare" => display_preds = <<>>)
    /\ (page.remedy_shown => page.remedy = NoRemedyAvailable)
    /\ (rep.written =>
          rep.name = Unknown /\ rep.conf = 0 /\ rep.remedy = NoRemedyAvailable)
    /\ (pc = "done" => page.card = "unknown" /\ rep.written /\ page.downloads)

C3_Witness ==
  /\ pc = "done"
  /\ preds = <<>>
  /\ predict_calls = 1
  /\ r.probs.st = "obj"
  /\ r.names.st = "dict"
  /\ rep.written

\* The value of a string of decimal digits.
DigitChars == <<"0","1","2","3","4","5","6","7","8","9">>

IsDigit(c) == \E d \in 1..10 : DigitChars[d] = c

RECURSIVE DecimalValue(_)
DecimalValue(s) ==
  IF s = <<>> THEN 0
  ELSE 10 * DecimalValue(SubSeq(s, 1, Len(s) - 1))
       + (CHOOSE d \in 0..9 : DigitChars[d + 1] = s[Len(s)])

\* name is what the catalog gives for idx: the catalog's entry, or for an id
\* the catalog lacks the text "Class " followed by the id in decimal.
IsCatalogNameOf(name, idx) ==
  IF idx \in DOMAIN CLASS_MAPPING
  THEN name = CLASS_MAPPING[idx]
  ELSE /\ Len(name) > 6
       /\ SubSeq(name, 1, 6) = <<"C","l","a","s","s"," ">>
       /\ \A i \in 7..Len(name) : IsDigit(name[i])
       /\ name[7] # "0" \/ Len(name) = 7
       /\ DecimalValue(SubSeq(name, 7, Len(name))) = idx

\* C5: every displayed name is the catalog name of the class id at the same
\* rank, or "Class {id}" for an id the catalog lacks; no name comes from
\* anywhere else, and every extracted entry gets a name.
C5_NamesFromCatalog ==
  (Extracted /\ pc # "prepare") =>
    /\ Len(display_preds) = Len(preds)
    /\ \A i \in 1..Len(preds) :
         /\ IsCatalogNameOf(display_preds[i][1], preds[i][1])
         /\ display_preds[i][2] = preds[i][2]
    /\ (page.card = "prediction" =>
          preds # <<>> /\ IsCatalogNameOf(page.name, preds[1][1]))

C5_Witness ==
  /\ pc = "done"
  /\ preds # <<>>
  /\ preds[1][1] = 44
  /\ page.name = <<"C","l","a","s","s"," ","4","4">>
  /\ r.names.st = "dict"

\* The scores of the source that answered the call.
BothRead(b) == Converts(b.cls) /\ Converts(b.conf)

CandidateScores(res) ==
  LET p == res.probs
  IN  IF p.st = "obj" /\ p.arr.st = "ok" /\ p.arr.a # <<>>
      THEN {p.arr.a[i] : i \in 1..Len(p.arr.a)}
      ELSE IF p.st = "obj" /\ Converts(p.top1) /\ Converts(p.top1conf)
      THEN {p.top1conf.v}
      ELSE IF p.st = "obj" /\ p.cpu.st = "ok"
      THEN {p.cpu.a[i] : i \in 1..Len(p.cpu.a)}
      ELSE {res.boxes.bs[i].conf.v :
              i \in {j \in 1..Len(res.boxes.bs) : BothRead(res.boxes.bs[j])}}

\* x is at least as good a score as y.  A NaN score counts as worse than
\* every number, so a list that ends with its NaN scores is still best-first.
AtLeastAsGood(x, y) == IsNaN(y) \/ (~IsNaN(x) /\ x >= y)

\* C6: the returned list has at most k entries, its scores never increase
\* along the list, and its first score is maximal among the candidates of the
\* source that answered.
C6_BestFirstAtMostK ==
  pc = "extract_returned" =>
    /\ Len(preds) <= k
    /\ \A i, j \in 1..Len(preds) :
         i < j => AtLeastAsGood(preds[i][2], preds[j][2])
    /\ preds # <<>> =>
         \A s \in CandidateScores(r) : AtLeastAsGood(preds[1][2], s)

\* C8: a missing model file or a load that raised ends the run with an error
\* before any image is decoded, any prediction is made or anything of a
\* result is rendered; MODEL.predict runs only after a load that succeeded.
StartupFailed ==
  env.model_exists = "no" \/ env.load \in {"no_yolo", "both_failed"}

C8_StartupFailureIsFatal ==
  /\ StartupFailed =>
       /\ pc = "stopped"
       /\ page.error \in {"Model file not found", "Failed to load model"}
       /\ ~MODEL
       /\ ~img
       /\ predict_calls = 0
       /\ page.card = "none"
       /\ ~page.remedy_shown
       /\ ~page.downloads
       /\ ~rep.written
  /\ env.model_exists = "no" => env.load = "?"
  /\ (img \/ predict_calls > 0) =>
       /\ MODEL
       /\ env.model_exists = "yes"
       /\ env.load \in {"normal", "cpu_fallback"}

C8_Witness ==
  /\ pc = "stopped"
  /\ env.model_exists = "yes"
  /\ env.load = "both_failed"
  /\ page.error = "Failed to load model"

\* The lists the description of the probe order allows: the first source
\* that yields an entry answers, a source that yields none is passed over, a
\* box is used when both its cls and its conf can be read, and the list is
\* empty only when no source yields an entry.  The description says nothing
\* of where a NaN score goes, so any place is allowed for it.
SortedTopK(pairs, kk) ==
  {[i \in 1..Min(kk, Len(pairs)) |-> pairs[p[i]]] :
     p \in {q \in Perms(Len(pairs)) :
              \A i, j \in 1..Len(pairs) :
                i < j => \/ IsNaN(pairs[q[i]][2]) \/ IsNaN(pairs[q[j]][2])
                         \/ pairs[q[i]][2] >= pairs[q[j]][2]}}

IndexedScores(a) == [i \in 1..Len(a) |-> <<i - 1, a[i]>>]

RECURSIVE ReadableBoxes(_)
ReadableBoxes(bs) ==
  IF bs = <<>> THEN <<>>
  ELSE LET rest == ReadableBoxes(SubSeq(bs, 1, Len(bs) - 1))
           b == bs[Len(bs)]
       IN  IF BothRead(b) THEN Append(rest, <<b.cls.v, b.conf.v>>) ELSE rest

DescribedLists(res, kk) ==
  LET p == res.probs
  IN  IF p.st = "obj" /\ p.arr.st = "ok" /\ p.arr.a # <<>>
      THEN SortedTopK(IndexedScores(p.arr.a), kk)
      ELSE IF p.st = "obj" /\ Converts(p.top1) /\ Converts(p.top1conf)
      THEN {<< <<p.top1.v, p.top1conf.v>> >>}
      ELSE IF p.st = "obj" /\ p.cpu.st = "ok" /\ p.cpu.a # <<>>
      THEN SortedTopK(IndexedScores(p.cpu.a), kk)
      ELSE SortedTopK(ReadableBoxes(res.boxes.bs), kk)

\* C9: the call returns what the first source that yields an entry gives,
\* in the order probs array, top1/top1conf, probs.cpu(), boxes; an unreadable
\* box is skipped and the others kept; [] only when no source has an entry.
C9_FirstYieldingSource ==
  pc = "extract_returned" => preds \in DescribedLists(r, k)

\* C10: the name, the confidence and the remedy on the page and in the
\* summary belong to the same top prediction; a named prediction never comes
\* with the no-prediction remedy text, and a catalog remedy is the one of the
\* class id whose name is displayed.
C10_SameTopPrediction ==
  /\ (Rendered /\ page.card = "prediction") =>
       /\ preds # <<>>
       /\ IsCatalogNameOf(page.name, preds[1][1])
       /\ top_conf = preds[1][2]
       /\ page.remedy # NoRemedyAvailable
       /\ ~page.remedy.none =>
            /\ preds[1][1] \in DOMAIN REMEDIES
            /\ page.remedy.text = REMEDIES[preds[1][1]]
  /\ (page.remedy_shown /\ page.name # Unknown) => page.remedy # NoRemedyAvailable
  /\ rep.written =>
       /\ rep.name = page.name
       /\ rep.remedy = page.remedy
       /\ page.remedy = remedy_text

C10_Witness ==
  /\ pc = "done"
  /\ page.card = "prediction"
  /\ Len(preds) > 1
  /\ preds[1][1] # preds[2][1]
  /\ ~page.remedy.none
  /\ rep.written

====
